---- MODULE Spec2Model ----
(***************************************************************************)
(* Model of the task-management CLI of src/src/main.rs: the menu loop of   *)
(* main and the four handlers add_task, list_tasks, mark_task_completed    *)
(* and delete_task, run against a single-client `tasks` table.             *)
(*                                                                         *)
(* Text is modelled as sequences of one-character strings, so that trim    *)
(* and parse are computed as the standard library computes them.           *)
(*                                                                         *)
(* The table is the external MySQL table the four SQL statements of the    *)
(* source address: `id` is an AUTO_INCREMENT INT primary key, `completed`  *)
(* defaults to FALSE and `created_at` to the store's clock.  The driver    *)
(* reports for UPDATE the number of rows the WHERE clause matched (it      *)
(* connects with CLIENT_FOUND_ROWS).  No other client writes the table,    *)
(* a statement that fails changes nothing, and standard output is          *)
(* writable.                                                               *)
(***************************************************************************)
EXTENDS Integers, Sequences, FiniteSets, TLC

VARIABLES
    pc,         \* position of main: "menu" (line 31), "await" (line 41),
                \* "exited" (line 57), "failed" (Err out of main), "panicked"
    tasks,      \* the table: id -> [description, completed, created_at]
    nextId,     \* the table's AUTO_INCREMENT counter
    now,        \* the store's clock (CURRENT_TIMESTAMP)
    choice,     \* this iteration: the line read at line 41
    arg,        \* this iteration: the line its handler read (description or id)
    handler,    \* this iteration: the handler it invoked, "none" if none
    stmts,      \* this iteration: the statements it issued, in order
    out,        \* the lines printed by the last step
    before,     \* history: the table as it was when this iteration began
    last,       \* history: the statement by which the iteration before this
                \* one changed the table, if it changed it
    seen        \* history: every id a record has had so far

vars == <<pc, tasks, nextId, now, choice, arg, handler, stmts, out, before, last, seen>>

----
\* Bounds of the model.
MaxId == 2
MaxLen == 2
MaxTime == 1

\* Range of i32 (the type of Task.id and of the parsed task_id).
I32Max == 2147483647
I32Min == (-I32Max) - 1

\* Naive local times that do not exist in the local zone (a DST gap).
GapTimes == {1}

NL == "\n"
WhiteSpace == {" ", NL, "\t"}
Digits == <<"0", "1", "2", "3", "4", "5", "6", "7", "8", "9">>

----
\* str::trim: strip leading and trailing white space.
RECURSIVE TrimStart(_)
TrimStart(s) ==
    IF s # <<>> /\ Head(s) \in WhiteSpace THEN TrimStart(Tail(s)) ELSE s

RECURSIVE TrimEnd(_)
TrimEnd(s) ==
    IF s # <<>> /\ s[Len(s)] \in WhiteSpace
    THEN TrimEnd(SubSeq(s, 1, Len(s) - 1)) ELSE s

\* Mutant: only the newline that ends the line is stripped.
Trim_NewlineOnly(s) ==
    IF s # <<>> /\ s[Len(s)] = NL THEN SubSeq(s, 1, Len(s) - 1) ELSE s

Trim(s) == TrimEnd(TrimStart(s))

IsDigit(c) == \E k \in 1..10 : Digits[k] = c
DigitVal(c) == (CHOOSE k \in 1..10 : Digits[k] = c) - 1

\* Checked accumulation of decimal digits, as <i32 as FromStr>::from_str does:
\* positive numbers are built upwards, negative ones downwards, and a step
\* that leaves the range of i32 is an error.
RECURSIVE ParseDigits(_, _, _)
ParseDigits(s, acc, neg) ==
    IF s = <<>> THEN [ok |-> TRUE, val |-> acc]
    ELSE IF ~IsDigit(Head(s)) THEN [ok |-> FALSE, val |-> 0]
    ELSE LET d == DigitVal(Head(s)) IN
         IF neg
         THEN IF acc < (I32Min + d + 9) \div 10
              THEN [ok |-> FALSE, val |-> 0]
              ELSE ParseDigits(Tail(s), acc * 10 - d, neg)
         ELSE IF acc > (I32Max - d) \div 10
              THEN [ok |-> FALSE, val |-> 0]
              ELSE ParseDigits(Tail(s), acc * 10 + d, neg)

\* Mutant: text that is no number parses as 0.
ParseI32_Lenient(s) ==
    LET r == IF s = <<>> THEN [ok |-> FALSE, val |-> 0]
             ELSE IF Head(s) \in {"+", "-"}
                  THEN IF Len(s) = 1 THEN [ok |-> FALSE, val |-> 0]
                       ELSE ParseDigits(Tail(s), 0, Head(s) = "-")
                  ELSE ParseDigits(s, 0, FALSE)
    IN  [ok |-> TRUE, val |-> r.val]

\* str::parse::<i32>: optional sign, then at least one digit, within range.
ParseI32(s) ==
    IF s = <<>> THEN [ok |-> FALSE, val |-> 0]
    ELSE IF Head(s) \in {"+", "-"}
         THEN IF Len(s) = 1 THEN [ok |-> FALSE, val |-> 0]
              ELSE ParseDigits(Tail(s), 0, Head(s) = "-")
         ELSE ParseDigits(s, 0, FALSE)

----
\* The lines read_line can return: the typed text followed by a newline, or
\* the empty text at end of input.
AllSeqs(S, n) == UNION {[1..k -> S] : k \in 0..n}
ReadLines(contents) == {c \o <<NL>> : c \in contents} \cup {<<>>}

MenuContents ==
    {<<"1">>, <<"2">>, <<"3">>, <<"4">>, <<"5">>, <<" ", "5", " ">>,
     <<>>, <<"a", "b", "c">>, <<"6">>, <<"1", "2">>}
MenuLines == ReadLines(MenuContents)

DescContents == AllSeqs({" ", "a"}, MaxLen)
DescLines == ReadLines(DescContents)

IdContents ==
    {<<Digits[k + 1]>> : k \in 0..(MaxId + 1)}
    \cup {<<" ", "1", " ">>, <<"+", "2">>, <<"-", "1">>,
          <<>>, <<"a">>, <<"1", "a">>,
          <<"2", "1", "4", "7", "4", "8", "3", "6", "4", "7">>,
          <<"2", "1", "4", "7", "4", "8", "3", "6", "4", "8">>,
          <<"-", "2", "1", "4", "7", "4", "8", "3", "6", "4", "9">>}
IdLines == ReadLines(IdContents)

----
\* struct Task, keyed by id.
Task(description, completed, created_at) ==
    [description |-> description, completed |-> completed, created_at |-> created_at]

\* Mutant: the new row is stored as completed.
Insert_Completed(tbl, id, description, t) ==
    [i \in DOMAIN tbl \cup {id} |->
        IF i = id THEN Task(description, TRUE, t) ELSE tbl[i]]

\* INSERT INTO tasks (description) VALUES (?)
Insert(tbl, id, description, t) ==
    [i \in DOMAIN tbl \cup {id} |->
        IF i = id THEN Task(description, FALSE, t) ELSE tbl[i]]
InsertRowsAffected(tbl, id) == Cardinality({id} \ DOMAIN tbl)

\* Mutant: the UPDATE has no WHERE clause.
UpdateCompleted_NoWhere(tbl, id) ==
    [i \in DOMAIN tbl |-> [tbl[i] EXCEPT !.completed = TRUE]]

\* Mutant: the UPDATE flips the flag.
UpdateCompleted_Toggle(tbl, id) ==
    [i \in DOMAIN tbl |->
        IF i = id THEN [tbl[i] EXCEPT !.completed = ~tbl[i].completed] ELSE tbl[i]]

\* Mutant: the driver reports the rows the UPDATE changed, not those it matched.
UpdateRowsAffected_Changed(tbl, id) ==
    Cardinality({i \in DOMAIN tbl : i = id /\ ~tbl[i].completed})

\* UPDATE tasks SET completed = TRUE WHERE id = ?
UpdateCompleted(tbl, id) ==
    [i \in DOMAIN tbl |->
        IF i = id THEN [tbl[i] EXCEPT !.completed = TRUE] ELSE tbl[i]]
UpdateRowsAffected(tbl, id) == Cardinality({i \in DOMAIN tbl : i = id})

\* Mutant: a DELETE that finds its row removes every row.
Delete_NoWhere(tbl, id) ==
    [i \in (IF id \in DOMAIN tbl THEN {} ELSE DOMAIN tbl) |-> tbl[i]]

\* DELETE FROM tasks WHERE id = ?
Delete(tbl, id) == [i \in DOMAIN tbl \ {id} |-> tbl[i]]
DeleteRowsAffected(tbl, id) == Cardinality({i \in DOMAIN tbl : i = id})

\* SELECT ... FROM tasks ORDER BY created_at DESC: every order of the rows
\* that is newest first (rows of equal created_at come in any order).
SelectOrdered(tbl) ==
    LET n == Cardinality(DOMAIN tbl) IN
    {s \in [1..n -> DOMAIN tbl] :
        /\ \A i, j \in 1..n : i # j => s[i] # s[j]
        /\ \A i, j \in 1..n : i < j => tbl[s[i]].created_at >= tbl[s[j]].created_at}

\* Local.from_local_datetime(..).earliest(): None in a DST gap.
Earliest(t) == IF t \in GapTimes THEN [some |-> FALSE, val |-> 0]
               ELSE [some |-> TRUE, val |-> t]

----
\* A statement and its result, as recorded in stmts.
Stmt(op, id, description, ok, rows) ==
    [op |-> op, id |-> id, description |-> description, ok |-> ok, rows |-> rows]

NoStmt == Stmt("none", 0, <<>>, FALSE, 0)

\* A printed line.
Line(text, id, description, completed, at) ==
    [text |-> text, id |-> id, description |-> description,
     completed |-> completed, at |-> at]
Msg(text) == Line(text, 0, <<>>, FALSE, 0)
MsgId(text, id) == Line(text, id, <<>>, FALSE, 0)
MsgDesc(text, description) == Line(text, 0, description, FALSE, 0)

Menu ==
    <<Msg("--- Task Management CLI ---"), Msg("1. Add Task"), Msg("2. List Tasks"),
      Msg("3. Mark Task as Completed"), Msg("4. Delete Task"), Msg("5. Exit"),
      Msg("Enter your choice: ")>>

\* The line list_tasks prints for a row.
TaskLine(id, task) ==
    Line("ID: {}, {} Description: '{}' (Created: {})", id, task.description,
         task.completed, Earliest(task.created_at).val)

\* The rows list_tasks prints before it stops: all of them, or those before
\* the first row whose created_at has no local time.
RECURSIVE Printed(_, _)
Printed(tbl, order) ==
    IF order = <<>> \/ ~Earliest(tbl[Head(order)].created_at).some THEN <<>>
    ELSE <<TaskLine(Head(order), tbl[Head(order)])>> \o Printed(tbl, Tail(order))

----
Init ==
    /\ pc = "menu"
    /\ \E n \in 0..1, c \in BOOLEAN :
          /\ tasks = [i \in 1..n |-> Task(<<"a">>, c, 0)]
          /\ nextId = n + 1
          /\ seen = 1..n
    /\ now = 0
    /\ choice = <<>>
    /\ arg = <<>>
    /\ handler = "none"
    /\ stmts = <<>>
    /\ out = <<Msg("Connected to MySQL database!")>>
    /\ before = tasks
    /\ last = NoStmt

\* Mutant: the match looks at the first character only.
Matches_Prefix(line, literal) == Trim(line) # <<>> /\ Head(Trim(line)) = literal

\* `choice` of line 42 against a literal of the match.
Matches(line, literal) == Trim(line) = <<literal>>

\* Mutant: the error is dropped and the loop goes on.
Propagate_Swallowed == pc' = "menu"

\* The `?` on a store error: the error leaves the handler and main.
Propagate == pc' = "failed"

\* Mutant: a handler that returns ends the loop.
Return_Exit == pc' = "exited"

\* Ok(()) of a handler: back to the top of the loop.
Return == pc' = "menu"

\* expect("Failed to read line") on a failed read_line.
ReadPanic(prompts) ==
    /\ arg' = <<>>
    /\ stmts' = <<>>
    /\ out' = prompts \o <<Msg("Failed to read line")>>
    /\ pc' = "panicked"
    /\ UNCHANGED <<tasks, nextId, now, seen>>

\* One iteration reads `line` and calls handler h (or none).
Iteration(line, h) ==
    /\ choice' = line
    /\ handler' = h
    /\ UNCHANGED <<before, last>>

add_task ==
    \/ \E d \in DescLines :
        LET description == Trim(d)
            prompt == Msg("Enter task description: ")
        IN  /\ arg' = d
            /\ IF description = <<>>
               THEN /\ out' = <<prompt, Msg("Task description cannot be empty.")>>
                    /\ stmts' = <<>>
                    /\ Return
                    /\ UNCHANGED <<tasks, nextId, now, seen>>
               ELSE \/ \E t \in now..MaxTime :
                        LET rows == InsertRowsAffected(tasks, nextId) IN
                        /\ nextId <= MaxId
                        /\ tasks' = Insert(tasks, nextId, description, t)
                        /\ nextId' = nextId + 1
                        /\ now' = t
                        /\ seen' = seen \cup {nextId}
                        /\ stmts' = <<Stmt("INSERT", nextId, description, TRUE, rows)>>
                        /\ out' = <<prompt,
                                    IF rows > 0
                                    THEN MsgDesc("Task '{}' added successfully!", description)
                                    ELSE Msg("Failed to add task.")>>
                        /\ Return
                    \/ /\ stmts' = <<Stmt("INSERT", 0, description, FALSE, 0)>>
                       /\ out' = <<prompt>>
                       /\ Propagate
                       /\ UNCHANGED <<tasks, nextId, now, seen>>
    \/ ReadPanic(<<Msg("Enter task description: ")>>)

list_tasks ==
    /\ arg' = <<>>
    /\ UNCHANGED <<tasks, nextId, now, seen>>
    /\ \/ \E order \in SelectOrdered(tasks) :
            LET n == Len(order)
                lines == Printed(tasks, order)
            IN  /\ stmts' = <<Stmt("SELECT", 0, <<>>, TRUE, n)>>
                /\ IF n = 0
                   THEN out' = <<Msg("No tasks found.")>> /\ Return
                   ELSE IF Len(lines) = n
                        THEN out' = <<Msg("--- Your Tasks ---")>> \o lines /\ Return
                        ELSE /\ out' = <<Msg("--- Your Tasks ---")>> \o lines \o
                                       <<Msg("Failed to convert naive datetime to local datetime")>>
                             /\ pc' = "panicked"
       \/ /\ stmts' = <<Stmt("SELECT", 0, <<>>, FALSE, 0)>>
          /\ out' = <<>>
          /\ Propagate

mark_task_completed ==
    \/ \E l \in IdLines :
        LET task_id == ParseI32(Trim(l))
            prompt == Msg("Enter the ID of the task to mark as completed: ")
        IN  /\ arg' = l
            /\ UNCHANGED <<nextId, now, seen>>
            /\ IF ~task_id.ok
               THEN /\ out' = <<prompt, Msg("Invalid task ID. Please enter a number.")>>
                    /\ stmts' = <<>>
                    /\ Return
                    /\ UNCHANGED tasks
               ELSE \/ LET rows == UpdateRowsAffected(tasks, task_id.val) IN
                       /\ tasks' = UpdateCompleted(tasks, task_id.val)
                       /\ stmts' = <<Stmt("UPDATE", task_id.val, <<>>, TRUE, rows)>>
                       /\ out' = <<prompt,
                                   IF rows > 0
                                   THEN MsgId("Task with ID {} marked as completed.", task_id.val)
                                   ELSE MsgId("No task found with ID {}. Nothing updated.", task_id.val)>>
                       /\ Return
                    \/ /\ stmts' = <<Stmt("UPDATE", task_id.val, <<>>, FALSE, 0)>>
                       /\ out' = <<prompt>>
                       /\ Propagate
                       /\ UNCHANGED tasks
    \/ ReadPanic(<<Msg("Enter the ID of the task to mark as completed: ")>>)

delete_task ==
    \/ \E l \in IdLines :
        LET task_id == ParseI32(Trim(l))
            prompt == Msg("Enter the ID of the task to delete: ")
        IN  /\ arg' = l
            /\ UNCHANGED <<nextId, now, seen>>
            /\ IF ~task_id.ok
               THEN /\ out' = <<prompt, Msg("Invalid task ID. Please enter a number.")>>
                    /\ stmts' = <<>>
                    /\ Return
                    /\ UNCHANGED tasks
               ELSE \/ LET rows == DeleteRowsAffected(tasks, task_id.val) IN
                       /\ tasks' = Delete(tasks, task_id.val)
                       /\ stmts' = <<Stmt("DELETE", task_id.val, <<>>, TRUE, rows)>>
                       /\ out' = <<prompt,
                                   IF rows > 0
                                   THEN MsgId("Task with ID {} deleted successfully.", task_id.val)
                                   ELSE MsgId("No task found with ID {}. Nothing deleted.", task_id.val)>>
                       /\ Return
                    \/ /\ stmts' = <<Stmt("DELETE", task_id.val, <<>>, FALSE, 0)>>
                       /\ out' = <<prompt>>
                       /\ Propagate
                       /\ UNCHANGED tasks
    \/ ReadPanic(<<Msg("Enter the ID of the task to delete: ")>>)

\* Lines 31-38: the menu and the prompt.
PrintMenu ==
    /\ pc = "menu"
    /\ pc' = "await"
    /\ out' = Menu
    /\ choice' = <<>>
    /\ arg' = <<>>
    /\ handler' = "none"
    /\ stmts' = <<>>
    /\ before' = tasks
    /\ last' = IF stmts # <<>> /\ stmts[1].ok /\ stmts[1].op # "SELECT" /\ stmts[1].rows > 0
               THEN stmts[1] ELSE NoStmt
    /\ UNCHANGED <<tasks, nextId, now, seen>>

\* Line 41: expect("Failed to read line").
ReadChoicePanic ==
    /\ pc = "await"
    /\ Iteration(<<>>, "none")
    /\ ReadPanic(<<>>)

\* The arms of the match of line 44.
ChooseAdd ==
    /\ pc = "await"
    /\ \E line \in MenuLines :
          Matches(line, "1") /\ Iteration(line, "add_task") /\ add_task

ChooseList ==
    /\ pc = "await"
    /\ \E line \in MenuLines :
          Matches(line, "2") /\ Iteration(line, "list_tasks") /\ list_tasks

ChooseComplete ==
    /\ pc = "await"
    /\ \E line \in MenuLines :
          Matches(line, "3") /\ Iteration(line, "mark_task_completed") /\ mark_task_completed

ChooseDelete ==
    /\ pc = "await"
    /\ \E line \in MenuLines :
          Matches(line, "4") /\ Iteration(line, "delete_task") /\ delete_task

ChooseExit == pc = "await" /\ \E line \in MenuLines :
    /\ Matches(line, "5")
    /\ Iteration(line, "none")
    /\ arg' = <<>>
    /\ stmts' = <<>>
    /\ out' = <<Msg("Exiting application. Goodbye!")>>
    /\ pc' = "exited"
    /\ UNCHANGED <<tasks, nextId, now, seen>>

ChooseInvalid == pc = "await" /\ \E line \in MenuLines :
    /\ \A k \in 2..6 : ~Matches(line, Digits[k])
    /\ Iteration(line, "none")
    /\ arg' = <<>>
    /\ stmts' = <<>>
    /\ out' = <<Msg("Invalid choice. Please try again.")>>
    /\ pc' = "menu"
    /\ UNCHANGED <<tasks, nextId, now, seen>>

Next ==
    \/ PrintMenu
    \/ ReadChoicePanic
    \/ ChooseAdd
    \/ ChooseList
    \/ ChooseComplete
    \/ ChooseDelete
    \/ ChooseExit
    \/ ChooseInvalid

Spec == Init /\ [][Next]_vars

----
\* Vocabulary of the properties.

\* The text the user typed: the line read without its newline.
Typed(line) ==
    IF line # <<>> /\ line[Len(line)] = NL THEN SubSeq(line, 1, Len(line) - 1) ELSE line

\* Handler h was invoked in the iteration that just ended.
Ran(h) == pc # "await" /\ handler = h

PanicTexts == {"Failed to read line", "Failed to convert naive datetime to local datetime"}
Panicked(o) == o # <<>> /\ o[Len(o)].text \in PanicTexts
ReadFailed(o) == o # <<>> /\ o[Len(o)].text = "Failed to read line"
StoreFailed(ss) == \E k \in 1..Len(ss) : ~ss[k].ok

\* The handler issued exactly one statement and it succeeded.
Issued(op) == Len(stmts) = 1 /\ stmts[1].op = op /\ stmts[1].ok

\* d is a decimal numeral: an optional sign, then digits only.
IsNumeric(d) ==
    LET body == IF d # <<>> /\ Head(d) \in {"+", "-"} THEN Tail(d) ELSE d
    IN  body # <<>> /\ \A k \in 1..Len(body) : IsDigit(body[k])

\* Every character of the text is white space.
IsBlank(d) == \A k \in 1..Len(d) : d[k] \in WhiteSpace

\* tbl2 is tbl with exactly the record id added, and nothing else changed.
AddsOnly(tbl, tbl2, id) ==
    /\ id \notin DOMAIN tbl
    /\ DOMAIN tbl2 = DOMAIN tbl \cup {id}
    /\ \A i \in DOMAIN tbl : tbl2[i] = tbl[i]

\* tbl2 is tbl with exactly the record id removed, and nothing else changed.
RemovesOnly(tbl, tbl2, id) ==
    /\ id \in DOMAIN tbl
    /\ DOMAIN tbl2 = DOMAIN tbl \ {id}
    /\ \A i \in DOMAIN tbl2 : tbl2[i] = tbl[i]

\* The lines of o that show a record.
Shown(o) == {k \in 1..Len(o) : o[k].text = "ID: {}, {} Description: '{}' (Created: {})"}

----
\* C1 as stated: for every non-empty text d, an Add(d) whose statement does
\* not fail adds exactly one record, with description = d, completed = FALSE,
\* leaving the others unchanged.
C1_AddStoresTypedText ==
    (Ran("add_task") /\ ~ReadFailed(out) /\ ~StoreFailed(stmts) /\ Typed(arg) # <<>>)
        => \E id \in DOMAIN tasks :
              /\ AddsOnly(before, tasks, id)
              /\ tasks[id].description = Typed(arg)
              /\ ~tasks[id].completed

\* C1 amended: for every text d that is non-empty after trimming, an Add(d)
\* whose INSERT succeeds adds exactly one record, with description = trim(d),
\* completed = FALSE and an id no record had before, and changes no other
\* record; a List that follows it and runs to its end shows exactly the
\* records of the table, the new one among them, once each.
C1_AddPart ==
    (handler' = "add_task" /\ pc' = "menu" /\ Trim(arg') # <<>>)
        => \E id \in DOMAIN tasks' :
              /\ id \notin seen
              /\ AddsOnly(tasks, tasks', id)
              /\ tasks'[id].description = Trim(arg')
              /\ ~tasks'[id].completed
              /\ stmts' = <<Stmt("INSERT", id, Trim(arg'), TRUE, 1)>>

C1_ListPart ==
    (last.op = "INSERT" /\ handler' = "list_tasks" /\ pc' = "menu")
        => /\ tasks' = tasks
           /\ \A i \in DOMAIN tasks :
                 Cardinality({k \in Shown(out') : out'[k].id = i}) = 1
           /\ \A k \in Shown(out') :
                 /\ out'[k].id \in DOMAIN tasks
                 /\ out'[k].description = tasks[out'[k].id].description
                 /\ out'[k].completed = tasks[out'[k].id].completed
           /\ \E k \in Shown(out') :
                 /\ out'[k].id = last.id
                 /\ out'[k].description = last.description
                 /\ ~out'[k].completed

C1_AddThenList == [][C1_AddPart /\ C1_ListPart]_vars

C1_Witness ==
    /\ Ran("list_tasks") /\ pc = "menu"
    /\ last.op = "INSERT"
    /\ Cardinality(DOMAIN tasks) = 2
    /\ \E i \in DOMAIN tasks : tasks[i].completed

\* C2: an Add whose description is empty after trimming issues no statement,
\* leaves the table unchanged, prints the one "empty description" message and
\* returns to the menu loop.
C2_EmptyDescriptionRejected ==
    (Ran("add_task") /\ ~ReadFailed(out) /\ IsBlank(arg))
        => /\ stmts = <<>>
           /\ tasks = before
           /\ out = <<Msg("Enter task description: "),
                      Msg("Task description cannot be empty.")>>
           /\ pc = "menu"

C2_Witness ==
    /\ Ran("add_task") /\ pc = "menu"
    /\ arg = <<" ", " ", NL>>
    /\ out[2] = Msg("Task description cannot be empty.")
    /\ DOMAIN tasks # {}

\* C3: Complete(id) and Delete(id) of an id that is not in the table report
\* "not found" (rows_affected = 0), leave every record unchanged and return to
\* the menu loop.
C3_NotFound ==
    /\ (Ran("mark_task_completed") /\ Issued("UPDATE") /\ stmts[1].id \notin DOMAIN before)
        => /\ stmts[1].rows = 0
           /\ out[2] = MsgId("No task found with ID {}. Nothing updated.", stmts[1].id)
           /\ tasks = before
           /\ pc = "menu"
    /\ (Ran("delete_task") /\ Issued("DELETE") /\ stmts[1].id \notin DOMAIN before)
        => /\ stmts[1].rows = 0
           /\ out[2] = MsgId("No task found with ID {}. Nothing deleted.", stmts[1].id)
           /\ tasks = before
           /\ pc = "menu"

C3_Witness ==
    /\ Ran("mark_task_completed") /\ Issued("UPDATE")
    /\ stmts[1].id \notin DOMAIN before
    /\ \E i \in DOMAIN tasks : ~tasks[i].completed
    /\ out[2].text = "No task found with ID {}. Nothing updated."

\* C4: Complete(id) of an existing id leaves completed = TRUE; a second
\* Complete(id) right after it leaves the table as the first left it and
\* again reports "marked as completed".
C4_CompleteIdempotent ==
    /\ (Ran("mark_task_completed") /\ Issued("UPDATE") /\ stmts[1].id \in DOMAIN before)
        => /\ stmts[1].id \in DOMAIN tasks
           /\ tasks[stmts[1].id].completed
           /\ out[2] = MsgId("Task with ID {} marked as completed.", stmts[1].id)
    /\ (Ran("mark_task_completed") /\ Issued("UPDATE")
            /\ last.op = "UPDATE" /\ last.id = stmts[1].id)
        => /\ tasks = before
           /\ tasks[stmts[1].id].completed
           /\ stmts[1].rows > 0
           /\ out[2] = MsgId("Task with ID {} marked as completed.", stmts[1].id)

C4_Witness ==
    /\ Ran("mark_task_completed") /\ Issued("UPDATE")
    /\ last.op = "UPDATE" /\ last.id = stmts[1].id
    /\ pc = "menu"

\* C5: Delete(id) of an id in the table reports success and removes exactly
\* that record; nothing but Add puts a record into the table, and a second
\* Delete(id) right after the first reports "not found" and changes nothing.
C5_DeletePart ==
    /\ (handler' = "delete_task" /\ Len(stmts') = 1 /\ stmts'[1].ok /\ stmts'[1].id \in DOMAIN tasks)
        => /\ RemovesOnly(tasks, tasks', stmts'[1].id)
           /\ out'[2] = MsgId("Task with ID {} deleted successfully.", stmts'[1].id)
           /\ pc' = "menu"
    /\ (handler' = "delete_task" /\ Len(stmts') = 1 /\ stmts'[1].ok
            /\ last.op = "DELETE" /\ last.id = stmts'[1].id)
        => /\ tasks' = tasks
           /\ out'[2] = MsgId("No task found with ID {}. Nothing deleted.", stmts'[1].id)
           /\ pc' = "menu"
    /\ handler' # "add_task" => DOMAIN tasks' \subseteq DOMAIN tasks

C5_DeleteThenDelete == [][C5_DeletePart]_vars

C5_Witness ==
    /\ Ran("delete_task") /\ Issued("DELETE")
    /\ last.op = "DELETE" /\ last.id = stmts[1].id
    /\ out[2].text = "No task found with ID {}. Nothing deleted."
    /\ DOMAIN tasks # {}

\* C6: a menu line that after trimming is none of "1".."5" prints the error,
\* invokes no handler, issues no statement, leaves the table unchanged and
\* goes back to the top of the loop, whose next step prints the menu again.
C6_InvalidPart ==
    /\ (pc = "await" /\ ~ReadFailed(out')
            /\ \A k \in 2..6 : Trim(choice') # <<Digits[k]>>)
        => /\ out' = <<Msg("Invalid choice. Please try again.")>>
           /\ handler' = "none"
           /\ stmts' = <<>>
           /\ tasks' = tasks /\ nextId' = nextId
           /\ pc' = "menu"
    /\ pc = "menu" => (pc' = "await" /\ out' = Menu /\ tasks' = tasks)

C6_InvalidChoice == [][C6_InvalidPart]_vars

C6_Witness ==
    /\ pc = "menu"
    /\ choice = <<"a", "b", "c", NL>>
    /\ out = <<Msg("Invalid choice. Please try again.")>>
    /\ DOMAIN tasks # {}

\* C7: in every step, a record that stays in the table keeps its description
\* and created_at, and keeps completed = TRUE once it has it; an id that a
\* record once had is never given to a new record.
C7_StepPart ==
    /\ \A i \in DOMAIN tasks \cap DOMAIN tasks' :
          /\ tasks[i].completed => tasks'[i].completed
          /\ tasks'[i].description = tasks[i].description
          /\ tasks'[i].created_at = tasks[i].created_at
    /\ (DOMAIN tasks' \ DOMAIN tasks) \cap seen = {}

C7_CompletedMonotonic == [][C7_StepPart]_vars

C7_Witness ==
    /\ Ran("mark_task_completed") /\ Issued("UPDATE")
    /\ stmts[1].id \in DOMAIN before
    /\ \E i \in DOMAIN before \cap DOMAIN tasks :
          i # stmts[1].id /\ before[i].completed /\ tasks[i].completed

\* C8: a statement that fails is not issued again: it is the only statement
\* of its iteration, main ends with the error, and from there no step is
\* taken (no statement, no menu).
C8_StepPart ==
    /\ StoreFailed(stmts') => (Len(stmts') = 1 /\ pc' = "failed")
    /\ pc # "failed"

C8_StoreErrorTerminates == [][C8_StepPart]_vars

C8_Witness ==
    /\ pc = "failed"
    /\ handler = "mark_task_completed"
    /\ StoreFailed(stmts)
    /\ DOMAIN tasks # {}

\* C9: in Complete and Delete an id text that is not a numeral is rejected
\* with a message, without a statement and without a change of the table,
\* and the loop goes on; a statement is issued only for a numeral.
C9_NonNumericId ==
    \A h \in {"mark_task_completed", "delete_task"} :
        (Ran(h) /\ ~ReadFailed(out))
            => /\ ~IsNumeric(Trim(arg))
                  => /\ Len(out) = 2
                     /\ out[2] = Msg("Invalid task ID. Please enter a number.")
                     /\ stmts = <<>>
                     /\ tasks = before
                     /\ pc = "menu"
               /\ stmts # <<>> => IsNumeric(Trim(arg))

C9_Witness ==
    /\ Ran("delete_task") /\ pc = "menu"
    /\ arg = <<"1", "a", NL>>
    /\ stmts = <<>>
    /\ DOMAIN tasks # {}

\* C10: an iteration invokes at most one handler and issues at most one
\* statement; it ends main only by choice "5" (no statement), by a store
\* error or by a panic, and otherwise returns to the top of the loop; the
\* top of the loop only prints the menu, and an ended main takes no step.
C10_StepPart ==
    /\ pc = "await"
        => /\ Len(stmts') <= 1
           /\ handler' \in {"none", "add_task", "list_tasks", "mark_task_completed", "delete_task"}
           /\ pc' \in {"menu", "exited", "failed", "panicked"}
           /\ pc' = "exited" =>
                 (Trim(choice') = <<"5">> /\ handler' = "none" /\ stmts' = <<>> /\ tasks' = tasks)
           /\ pc' = "failed" => StoreFailed(stmts')
           /\ pc' = "panicked" => Panicked(out')
           /\ (Trim(choice') # <<"5">> /\ ~StoreFailed(stmts') /\ ~Panicked(out'))
                 => pc' = "menu"
    /\ pc = "menu" => pc' = "await"
    /\ pc \in {"menu", "await"}

C10_LoopLifetime == [][C10_StepPart]_vars

C10_Witness ==
    /\ pc = "exited"
    /\ choice = <<" ", "5", " ", NL>>
    /\ DOMAIN tasks # {}

====
